---- MODULE Spec2Model ----
(***************************************************************************)
(* The ExpenseTracker component (src/src/components/ExpenseTracker.tsx):   *)
(* its React state, its two effects (load on mount, save on every change   *)
(* of the list), its handlers (add, delete, reset, three exports) and the  *)
(* localStorage item 'expenses' it mirrors the list into.                  *)
(*                                                                         *)
(* A JavaScript string is a tuple of one-character strings, so that        *)
(* joining, splitting, parsing and formatting are computed, not assumed.   *)
(* A JavaScript number is an integer count of hundredths (2.5 is 250); the *)
(* amounts the model enters have at most two decimals, so sums are exact.  *)
(***************************************************************************)
EXTENDS Integers, Sequences, FiniteSets, TLC

\* The longest list the model builds, and the last value of the clock.
MaxLen == 2
MaxClock == 2

(***************************************************************************)
(* Strings and numbers                                                     *)
(***************************************************************************)
Digits == <<"0", "1", "2", "3", "4", "5", "6", "7", "8", "9">>

IsDigit(c) == \E i \in 1..10 : Digits[i] = c

DigitVal(c) == (CHOOSE i \in 1..10 : Digits[i] = c) - 1

\* Not-a-Number: a value outside the range of every number the model forms.
NaN == -99999999

\* s with every leading character that is a digit, up to the first non-digit.
RECURSIVE TakeDigits(_)
TakeDigits(s) ==
  IF s # <<>> /\ IsDigit(Head(s)) THEN <<Head(s)>> \o TakeDigits(Tail(s)) ELSE <<>>

RECURSIVE DigitsValue(_)
DigitsValue(ds) ==
  IF ds = <<>> THEN 0
  ELSE DigitsValue(SubSeq(ds, 1, Len(ds) - 1)) * 10 + DigitVal(ds[Len(ds)])

\* The hundredths a fraction's digits stand for (digits after the second are
\* below the model's resolution).
FractionValue(fs) ==
  IF fs = <<>> THEN 0
  ELSE IF Len(fs) = 1 THEN DigitVal(fs[1]) * 10
  ELSE DigitVal(fs[1]) * 10 + DigitVal(fs[2])

\* parseFloat: an optional sign, digits, an optional fraction; whatever
\* follows is ignored; NaN when no digit is found.
parseFloat(s) ==
  LET signed == s # <<>> /\ Head(s) \in {"-", "+"}
      body == IF signed THEN Tail(s) ELSE s
      ip == TakeDigits(body)
      rest == SubSeq(body, Len(ip) + 1, Len(body))
      fp == IF rest # <<>> /\ Head(rest) = "." THEN TakeDigits(Tail(rest)) ELSE <<>>
      mag == DigitsValue(ip) * 100 + FractionValue(fp)
  IN IF ip = <<>> /\ fp = <<>> THEN NaN
     ELSE IF signed /\ Head(s) = "-" THEN 0 - mag ELSE mag

\* Number.prototype.toString of a non-negative integer.
RECURSIVE NatToString(_)
NatToString(n) ==
  IF n < 10 THEN <<Digits[n + 1]>>
  ELSE NatToString(n \div 10) \o <<Digits[(n % 10) + 1]>>

\* Number.prototype.toFixed(2): always two decimals.
toFixed2(x) ==
  IF x = NaN THEN <<"N", "a", "N">>
  ELSE LET mag == IF x < 0 THEN 0 - x ELSE x
           txt == NatToString(mag \div 100) \o <<".">>
                    \o <<Digits[((mag % 100) \div 10) + 1], Digits[(mag % 10) + 1]>>
       IN IF x < 0 THEN <<"-">> \o txt ELSE txt

\* Number.prototype.toString: the shortest decimal, no trailing zeros.
NumberToString(x) ==
  IF x = NaN THEN <<"N", "a", "N">>
  ELSE LET mag == IF x < 0 THEN 0 - x ELSE x
           ip == NatToString(mag \div 100)
           f == mag % 100
           txt == IF f = 0 THEN ip
                  ELSE IF f % 10 = 0 THEN ip \o <<".", Digits[(f \div 10) + 1]>>
                  ELSE ip \o <<".", Digits[(f \div 10) + 1], Digits[(f % 10) + 1]>>
       IN IF x < 0 THEN <<"-">> \o txt ELSE txt

\* The + of two numbers: NaN absorbs.
NumAdd(a, b) == IF a = NaN \/ b = NaN THEN NaN ELSE a + b

\* Array.prototype.join of a list of strings.
RECURSIVE Join(_, _)
Join(parts, sep) ==
  IF parts = <<>> THEN <<>>
  ELSE IF Len(parts) = 1 THEN parts[1]
  ELSE parts[1] \o sep \o Join(Tail(parts), sep)

(***************************************************************************)
(* JavaScript values and JSON                                              *)
(*                                                                         *)
(* A value is a record: t its type, n its number, s its string, items the  *)
(* elements of an array or the members (k, v) of an object, in insertion   *)
(* order.  A JSON text is the sequence of its tokens, each with its text.  *)
(***************************************************************************)
JUndefined == [t |-> "undefined", n |-> 0, s |-> <<>>, items |-> <<>>]

JNull == [t |-> "null", n |-> 0, s |-> <<>>, items |-> <<>>]

JNum(x) == [t |-> "num", n |-> x, s |-> <<>>, items |-> <<>>]

JStr(c) == [t |-> "str", n |-> 0, s |-> c, items |-> <<>>]

JArr(xs) == [t |-> "arr", n |-> 0, s |-> <<>>, items |-> xs]

JObj(ms) == [t |-> "obj", n |-> 0, s |-> <<>>, items |-> ms]

Member(key, val) == [k |-> key, v |-> val]

\* obj.key: undefined when obj is no object or has no such member.
Get(obj, key) ==
  IF obj.t = "obj" /\ \E i \in 1..Len(obj.items) : obj.items[i].k = key
  THEN obj.items[CHOOSE i \in 1..Len(obj.items) : obj.items[i].k = key].v
  ELSE JUndefined

Tok(type, text) == [t |-> type, v |-> text]

Punct(type) == Tok(type, <<>>)

\* JSON.stringify: NaN becomes null, a member whose value is undefined is
\* left out, an undefined array element becomes null.
RECURSIVE JSONstringify(_)
JSONstringify(val) ==
  CASE val.t = "num" ->
         IF val.n = NaN THEN <<Punct("null")>> ELSE <<Tok("num", NumberToString(val.n))>>
    [] val.t = "str" -> <<Tok("str", val.s)>>
    [] val.t = "arr" ->
         <<Punct("[")>>
           \o Join([i \in 1..Len(val.items) |-> JSONstringify(val.items[i])], <<Punct(",")>>)
           \o <<Punct("]")>>
    [] val.t = "obj" ->
         LET kept == SelectSeq(val.items, LAMBDA m : m.v.t # "undefined")
         IN <<Punct("{")>>
              \o Join([i \in 1..Len(kept) |->
                         <<Tok("str", kept[i].k), Punct(":")>> \o JSONstringify(kept[i].v)],
                      <<Punct(",")>>)
              \o <<Punct("}")>>
    [] OTHER -> <<Punct("null")>>

ParseFail == [ok |-> FALSE, val |-> JUndefined, rest |-> <<>>]

ParseOk(value, remaining) == [ok |-> TRUE, val |-> value, rest |-> remaining]

\* The recursive-descent reading of one JSON value off the front of ts.
RECURSIVE ParseValue(_)
RECURSIVE ParseElements(_, _)
RECURSIVE ParseMembers(_, _)
ParseValue(ts) ==
  IF ts = <<>> THEN ParseFail
  ELSE LET hd == Head(ts) IN
       CASE hd.t = "null" -> ParseOk(JNull, Tail(ts))
         [] hd.t = "num" ->
              IF parseFloat(hd.v) = NaN THEN ParseFail
              ELSE ParseOk(JNum(parseFloat(hd.v)), Tail(ts))
         [] hd.t = "str" -> ParseOk(JStr(hd.v), Tail(ts))
         [] hd.t = "[" ->
              IF Len(ts) >= 2 /\ ts[2].t = "]"
              THEN ParseOk(JArr(<<>>), SubSeq(ts, 3, Len(ts)))
              ELSE ParseElements(Tail(ts), <<>>)
         [] hd.t = "{" ->
              IF Len(ts) >= 2 /\ ts[2].t = "}"
              THEN ParseOk(JObj(<<>>), SubSeq(ts, 3, Len(ts)))
              ELSE ParseMembers(Tail(ts), <<>>)
         [] OTHER -> ParseFail

ParseElements(ts, acc) ==
  LET r == ParseValue(ts) IN
  IF ~r.ok \/ r.rest = <<>> THEN ParseFail
  ELSE IF Head(r.rest).t = "," THEN ParseElements(Tail(r.rest), Append(acc, r.val))
  ELSE IF Head(r.rest).t = "]" THEN ParseOk(JArr(Append(acc, r.val)), Tail(r.rest))
  ELSE ParseFail

ParseMembers(ts, acc) ==
  IF Len(ts) < 3 \/ ts[1].t # "str" \/ ts[2].t # ":" THEN ParseFail
  ELSE LET r == ParseValue(SubSeq(ts, 3, Len(ts))) IN
       IF ~r.ok \/ r.rest = <<>> THEN ParseFail
       ELSE IF Head(r.rest).t = ","
            THEN ParseMembers(Tail(r.rest), Append(acc, Member(ts[1].v, r.val)))
       ELSE IF Head(r.rest).t = "}"
            THEN ParseOk(JObj(Append(acc, Member(ts[1].v, r.val))), Tail(r.rest))
       ELSE ParseFail

\* JSON.parse: ok is FALSE where it throws a SyntaxError.
JSONparse(text) ==
  LET r == ParseValue(text) IN
  IF r.ok /\ r.rest = <<>> THEN [ok |-> TRUE, val |-> r.val]
  ELSE [ok |-> FALSE, val |-> JUndefined]

(***************************************************************************)
(* The component's constants                                               *)
(***************************************************************************)
Food == <<"f", "o", "o", "d">>
Transport == <<"t", "r", "a", "n", "s", "p", "o", "r", "t">>
Entertainment == <<"e", "n", "t", "e", "r", "t", "a", "i", "n", "m", "e", "n", "t">>
Shopping == <<"s", "h", "o", "p", "p", "i", "n", "g">>
Utilities == <<"u", "t", "i", "l", "i", "t", "i", "e", "s">>
Healthcare == <<"h", "e", "a", "l", "t", "h", "c", "a", "r", "e">>
Other == <<"o", "t", "h", "e", "r">>

categories ==
  << [value |-> Food, color |-> "category-food",
      label |-> <<"F", "o", "o", "d", " ", "&", " ", "D", "i", "n", "i", "n", "g">>],
     [value |-> Transport, color |-> "category-transport",
      label |-> <<"T", "r", "a", "n", "s", "p", "o", "r", "t", "a", "t", "i", "o", "n">>],
     [value |-> Entertainment, color |-> "category-entertainment",
      label |-> <<"E", "n", "t", "e", "r", "t", "a", "i", "n", "m", "e", "n", "t">>],
     [value |-> Shopping, color |-> "category-shopping",
      label |-> <<"S", "h", "o", "p", "p", "i", "n", "g">>],
     [value |-> Utilities, color |-> "category-utilities",
      label |-> <<"B", "i", "l", "l", "s", " ", "&", " ", "U", "t", "i", "l", "i", "t", "i", "e", "s">>],
     [value |-> Healthcare, color |-> "category-healthcare",
      label |-> <<"H", "e", "a", "l", "t", "h", "c", "a", "r", "e">>],
     [value |-> Other, color |-> "category-other",
      label |-> <<"O", "t", "h", "e", "r">>] >>

\* The members of an Expense, in the order addExpense writes them.
K_id == <<"i", "d">>
K_amount == <<"a", "m", "o", "u", "n", "t">>
K_description == <<"d", "e", "s", "c", "r", "i", "p", "t", "i", "o", "n">>
K_category == <<"c", "a", "t", "e", "g", "o", "r", "y">>
K_date == <<"d", "a", "t", "e">>

Expense(id, amt, desc, cat, date) ==
  JObj(<< Member(K_id, JStr(id)), Member(K_amount, JNum(amt)),
          Member(K_description, JStr(desc)), Member(K_category, JStr(cat)),
          Member(K_date, JStr(date)) >>)

\* categories.find(c => c.value === code)?.label || code
CategoryLabel(code) ==
  IF \E i \in 1..Len(categories) : categories[i].value = code
  THEN categories[CHOOSE i \in 1..Len(categories) :
                    /\ categories[i].value = code
                    /\ \A j \in 1..(i - 1) : categories[j].value # code].label
  ELSE code

\* Date.now().toString(): the clock's reading, in decimal.
DateNowString(t) == NatToString(t)

\* new Date().toLocaleDateString(), in the en-US form month/day/year; a
\* step of the model's clock is taken as a day.
toLocaleDateString(t) == <<"1", "/">> \o NatToString(t) \o <<"/", "2", "0", "2", "6">>

(***************************************************************************)
(* What the user and the environment supply                                *)
(***************************************************************************)
\* Texts typed into the amount field.
AmountTexts == { <<>>, <<"5">>, <<"2", ".", "5">>, <<"a", "b", "c">> }

\* Texts typed into the description field.
DescriptionTexts == { <<>>, <<"B", "u", "s">>, <<"a", ",", "b">> }

\* The categories picked in the model (the Select offers all of categories).
CategoryChoices == { Food }

\* An id no record of the model carries.
UnknownId == <<"x">>

\* The value of an <input type="number">: the typed text when it is a valid
\* floating-point number, the empty string otherwise.
NumberInputValue(raw) ==
  LET body == IF raw # <<>> /\ Head(raw) = "-" THEN Tail(raw) ELSE raw
      ip == TakeDigits(body)
      rest == SubSeq(body, Len(ip) + 1, Len(body))
      valid == \/ ip # <<>> /\ rest = <<>>
               \/ /\ rest # <<>>
                  /\ Head(rest) = "."
                  /\ Tail(rest) # <<>>
                  /\ TakeDigits(Tail(rest)) = Tail(rest)
  IN IF valid THEN raw ELSE <<>>

\* A record an earlier session left in storage, with a category code that
\* is not in the catalog.
StoredExpense ==
  Expense(<<"0">>, 700, <<"o", "l", "d">>, <<"m", "i", "s", "c">>, toLocaleDateString(0))

AbsentItem == [present |-> FALSE, text |-> <<>>]

Item(t) == [present |-> TRUE, text |-> t]

\* What the 'expenses' item may hold when the first session starts: nothing,
\* a list this program wrote, text that does not parse, JSON that is no
\* list (null), a list whose elements are no records.
InitialStorage ==
  { AbsentItem,
    Item(JSONstringify(JArr(<<StoredExpense>>))),
    Item(<<Punct("{")>>),
    Item(<<Punct("null")>>),
    Item(JSONstringify(JArr(<<JNull>>))) }

(***************************************************************************)
(* State                                                                   *)
(***************************************************************************)
VARIABLES
  storage,      \* the localStorage item 'expenses'
  expenses,     \* useState: the list the committed render shows
  amount,       \* useState: the amount field
  description,  \* useState: the description field
  category,     \* useState: the category field
  loaded,       \* the update setExpenses queued in the load effect
  pc,           \* "load", "save", "rerender", "idle" or "crashed"
  now,          \* the clock Date reads
  toast,        \* the notification of the latest handler call
  download,     \* the file of the latest handler call
  preReload     \* the list the previous session ended with, kept until
                \* the first handler call of this session

vars ==
  << storage, expenses, amount, description, category, loaded, pc, now, toast,
     download, preReload >>

NoUpdate == [set |-> FALSE, val |-> JUndefined]

NoToast == [severity |-> "none", message |-> ""]

ToastError(msg) == [severity |-> "error", message |-> msg]

ToastSuccess(msg) == [severity |-> "success", message |-> msg]

NoFile == [name |-> "", text |-> <<>>, sheet |-> "", title |-> "", rows |-> <<>>]

(***************************************************************************)
(* What a render computes                                                  *)
(***************************************************************************)
\* expenses.reduce((sum, expense) => sum + expense.amount, 0)
RECURSIVE Reduce(_, _)
Reduce(list, sum) ==
  IF list = <<>> THEN sum
  ELSE Reduce(Tail(list),
              NumAdd(sum, IF Get(Head(list), K_amount).t = "num"
                          THEN Get(Head(list), K_amount).n ELSE NaN))

totalExpenses == Reduce(expenses.items, 0)

\* Whether a render with this list returns: reduce needs an array, reading
\* expense.amount needs an element that is not null, toFixed needs amounts
\* that are numbers, and a child of the markup must not be an object.
RenderOk(list) ==
  /\ list.t = "arr"
  /\ \A i \in 1..Len(list.items) :
       /\ list.items[i].t = "obj"
       /\ Get(list.items[i], K_amount).t = "num"
       /\ Get(list.items[i], K_description).t # "obj"
       /\ Get(list.items[i], K_date).t # "obj"

\* The text a string-valued member contributes to a row.
Text(val) ==
  CASE val.t = "str" -> val.s
    [] val.t = "num" -> NumberToString(val.n)
    [] OTHER -> <<>>

\* One row of an export: date, description, category label, amount.
ExportRow(exp) ==
  << Text(Get(exp, K_date)), Text(Get(exp, K_description)),
     CategoryLabel(Text(Get(exp, K_category))), toFixed2(Get(exp, K_amount).n) >>

CsvHeader ==
  << <<"D", "a", "t", "e">>,
     <<"D", "e", "s", "c", "r", "i", "p", "t", "i", "o", "n">>,
     <<"C", "a", "t", "e", "g", "o", "r", "y">>,
     <<"A", "m", "o", "u", "n", "t">> >>

\* The header of the sheet and of the PDF table: the code writes the last
\* column as Amount followed by a money emoji, left out here.
TableHeader == CsvHeader

\* [header, ...rows].map(row => row.join(",")).join("\n")
csvContent(list) ==
  LET table == <<CsvHeader>> \o [i \in 1..Len(list) |-> ExportRow(list[i])]
  IN Join([i \in 1..Len(table) |-> Join(table[i], <<",">>)], <<"\n">>)

(***************************************************************************)
(* Mount: the first render shows [], then the two effects run in order     *)
(***************************************************************************)
Init ==
  /\ storage \in InitialStorage
  /\ expenses = JArr(<<>>)
  /\ amount = <<>>
  /\ description = <<>>
  /\ category = <<>>
  /\ loaded = NoUpdate
  /\ pc = "load"
  /\ now = 1
  /\ toast = NoToast
  /\ download = NoFile
  /\ preReload = JUndefined

\* if (savedExpenses): getItem gave a string that is not empty.
Truthy(item) == item.present /\ item.text # <<>>

\* The load effect.  JSON.parse may throw: the component is then unmounted;
\* whether the save effect of the same commit still ran is left open.
LoadEffect ==
  /\ pc = "load"
  /\ IF Truthy(storage)
     THEN IF JSONparse(storage.text).ok
          THEN /\ loaded' = [set |-> TRUE, val |-> JSONparse(storage.text).val]
               /\ pc' = "save"
               /\ UNCHANGED storage
          ELSE /\ pc' = "crashed"
               /\ storage' \in {storage, Item(JSONstringify(expenses))}
               /\ UNCHANGED loaded
     ELSE /\ pc' = "save"
          /\ UNCHANGED <<loaded, storage>>
  /\ UNCHANGED <<expenses, amount, description, category, now, toast, download, preReload>>


\* A save effect that skips the write when the list is empty.
SaveEffect_SkipEmpty ==
  /\ pc = "save"
  /\ storage' = IF expenses.items = <<>> THEN storage ELSE Item(JSONstringify(expenses))
  /\ pc' = IF loaded.set THEN "rerender" ELSE "idle"
  /\ UNCHANGED <<expenses, amount, description, category, loaded, now, toast, download,
                 preReload>>

\* The save effect: it writes the list of the render it belongs to.
SaveEffect ==
  /\ pc = "save"
  /\ storage' = Item(JSONstringify(expenses))
  /\ pc' = IF loaded.set THEN "rerender" ELSE "idle"
  /\ UNCHANGED <<expenses, amount, description, category, loaded, now, toast, download,
                 preReload>>


\* A re-render of the loaded list whose save effect does not run.
Rerender_NoSave ==
  /\ pc = "rerender"
  /\ loaded' = NoUpdate
  /\ IF RenderOk(loaded.val)
     THEN expenses' = loaded.val /\ pc' = "idle"
     ELSE expenses' = expenses /\ pc' = "crashed"
  /\ UNCHANGED <<storage, amount, description, category, now, toast, download, preReload>>

\* The render the load effect's setExpenses asked for.
Rerender ==
  /\ pc = "rerender"
  /\ loaded' = NoUpdate
  /\ IF RenderOk(loaded.val)
     THEN expenses' = loaded.val /\ pc' = "save"
     ELSE expenses' = expenses /\ pc' = "crashed"
  /\ UNCHANGED <<storage, amount, description, category, now, toast, download, preReload>>

(***************************************************************************)
(* The form fields                                                         *)
(***************************************************************************)
SetAmount ==
  /\ pc = "idle"
  /\ \E raw \in AmountTexts : amount' = NumberInputValue(raw)
  /\ UNCHANGED <<storage, expenses, description, category, loaded, pc, now, toast,
                 download, preReload>>

SetDescription ==
  /\ pc = "idle"
  /\ \E text \in DescriptionTexts : description' = text
  /\ UNCHANGED <<storage, expenses, amount, category, loaded, pc, now, toast, download,
                 preReload>>

SetCategory ==
  /\ pc = "idle"
  /\ \E code \in CategoryChoices : category' = code
  /\ UNCHANGED <<storage, expenses, amount, description, loaded, pc, now, toast, download,
                 preReload>>

(***************************************************************************)
(* The handlers.  A handler's setExpenses is followed at once by the       *)
(* render that commits it; the save effect of that render is a later step. *)
(***************************************************************************)

\* A validation that forgets the amount.
MissingField_NoAmount(a, d, c) == d = <<>> \/ c = <<>>

\* !amount || !description || !category
MissingField(a, d, c) == a = <<>> \/ d = <<>> \/ c = <<>>

newExpense ==
  Expense(DateNowString(now), parseFloat(amount), description, category,
          toLocaleDateString(now))


\* An add that appends the new record: [...expenses, newExpense].
addExpense_Append ==
  /\ pc = "idle"
  /\ IF MissingField(amount, description, category)
     THEN /\ toast' = ToastError("Please fill in all fields")
          /\ UNCHANGED <<expenses, amount, description, category, pc>>
     ELSE /\ Len(expenses.items) < MaxLen
          /\ expenses' = JArr(expenses.items \o <<newExpense>>)
          /\ amount' = <<>>
          /\ description' = <<>>
          /\ category' = <<>>
          /\ toast' = ToastSuccess("Expense added successfully!")
          /\ pc' = "save"
  /\ download' = NoFile
  /\ UNCHANGED <<storage, loaded, now>>
  /\ preReload' = JUndefined

addExpense ==
  /\ pc = "idle"
  /\ IF MissingField(amount, description, category)
     THEN /\ toast' = ToastError("Please fill in all fields")
          /\ UNCHANGED <<expenses, amount, description, category, pc>>
     ELSE /\ Len(expenses.items) < MaxLen
          /\ expenses' = JArr(<<newExpense>> \o expenses.items)
          /\ amount' = <<>>
          /\ description' = <<>>
          /\ category' = <<>>
          /\ toast' = ToastSuccess("Expense added successfully!")
          /\ pc' = "save"
  /\ download' = NoFile
  /\ UNCHANGED <<storage, loaded, now>>
  /\ preReload' = JUndefined

\* expenses.filter((expense) => expense.id !== id)
Filter(list, id) == SelectSeq(list, LAMBDA e : Get(e, K_id) # JStr(id))

deleteExpense(id) ==
  /\ pc = "idle"
  /\ expenses' = JArr(Filter(expenses.items, id))
  /\ toast' = ToastSuccess("Expense deleted")
  /\ download' = NoFile
  /\ pc' = "save"
  /\ UNCHANGED <<storage, amount, description, category, loaded, now>>
  /\ preReload' = JUndefined

\* The ids a delete is called with: those of the rows shown, and one more.
DeleteIds == {Text(Get(expenses.items[i], K_id)) : i \in 1..Len(expenses.items)} \cup {UnknownId}

Delete == \E id \in DeleteIds : deleteExpense(id)

resetAllExpenses ==
  /\ pc = "idle"
  /\ expenses' = JArr(<<>>)
  /\ storage' = AbsentItem
  /\ toast' = ToastSuccess("All expenses cleared")
  /\ download' = NoFile
  /\ pc' = "save"
  /\ UNCHANGED <<amount, description, category, loaded, now>>
  /\ preReload' = JUndefined


\* An emptiness test that never holds.
NothingToExport_Never(list) == Len(list) < 0

\* expenses.length === 0
NothingToExport(list) == Len(list) = 0

exportToCSV ==
  /\ pc = "idle"
  /\ IF NothingToExport(expenses.items)
     THEN toast' = ToastError("No expenses to export") /\ download' = NoFile
     ELSE /\ download' = [NoFile EXCEPT !.name = "cleaned_financial_data.csv",
                                        !.text = csvContent(expenses.items)]
          /\ toast' = ToastSuccess("CSV exported successfully")
  /\ UNCHANGED <<storage, expenses, amount, description, category, loaded, pc, now>>
  /\ preReload' = JUndefined

exportToExcel ==
  /\ pc = "idle"
  /\ IF NothingToExport(expenses.items)
     THEN toast' = ToastError("No expenses to export") /\ download' = NoFile
     ELSE /\ download' =
               [NoFile EXCEPT !.name = "cleaned_financial_data.xlsx",
                              !.sheet = "Expenses",
                              !.rows = <<TableHeader>>
                                         \o [i \in 1..Len(expenses.items) |->
                                               ExportRow(expenses.items[i])]]
          /\ toast' = ToastSuccess("Excel file exported successfully")
  /\ UNCHANGED <<storage, expenses, amount, description, category, loaded, pc, now>>
  /\ preReload' = JUndefined

exportToPDF ==
  /\ pc = "idle"
  /\ IF NothingToExport(expenses.items)
     THEN toast' = ToastError("No expenses to export") /\ download' = NoFile
     ELSE /\ download' =
               [NoFile EXCEPT !.name = "cleaned_financial_data.pdf",
                              !.title = "Financial Data",
                              !.rows = <<TableHeader>>
                                         \o [i \in 1..Len(expenses.items) |->
                                               ExportRow(expenses.items[i])]]
          /\ toast' = ToastSuccess("PDF exported successfully")
  /\ UNCHANGED <<storage, expenses, amount, description, category, loaded, pc, now>>
  /\ preReload' = JUndefined

(***************************************************************************)
(* The environment: time passes, the page is loaded again                  *)
(***************************************************************************)
Tick ==
  /\ pc = "idle"
  /\ now < MaxClock
  /\ now' = now + 1
  /\ UNCHANGED <<storage, expenses, amount, description, category, loaded, pc, toast,
                 download, preReload>>

\* A fresh session: the state of a new mount over the storage left behind.
Reload ==
  /\ pc \in {"idle", "crashed"}
  /\ preReload' = IF pc = "idle" THEN expenses ELSE JUndefined
  /\ expenses' = JArr(<<>>)
  /\ amount' = <<>>
  /\ description' = <<>>
  /\ category' = <<>>
  /\ loaded' = NoUpdate
  /\ pc' = "load"
  /\ toast' = NoToast
  /\ download' = NoFile
  /\ UNCHANGED <<storage, now>>

Next ==
  \/ LoadEffect
  \/ SaveEffect
  \/ Rerender
  \/ SetAmount
  \/ SetDescription
  \/ SetCategory
  \/ addExpense
  \/ Delete
  \/ resetAllExpenses
  \/ exportToCSV
  \/ exportToExcel
  \/ exportToPDF
  \/ Tick
  \/ Reload

Spec == Init /\ [][Next]_vars

(***************************************************************************)
(* Properties                                                              *)
(***************************************************************************)
List == expenses.items

Ids(list) == [i \in 1..Len(list) |-> Get(list[i], K_id)]

\* What a fresh session adopts from the item: the parsed value when the
\* item is truthy, the empty list otherwise (undefined where parse throws).
FreshLoad(item) ==
  IF Truthy(item)
  THEN IF JSONparse(item.text).ok THEN JSONparse(item.text).val ELSE JUndefined
  ELSE JArr(<<>>)

\* list without its element at position i.
RemoveAt(list, i) == SubSeq(list, 1, i - 1) \o SubSeq(list, i + 1, Len(list))

\* Whether short is long with some elements left out, the order kept.
RECURSIVE IsSubsequence(_, _)
IsSubsequence(short, long) ==
  IF short = <<>> THEN TRUE
  ELSE IF long = <<>> THEN FALSE
  ELSE IF Head(short) = Head(long) THEN IsSubsequence(Tail(short), Tail(long))
  ELSE IsSubsequence(short, Tail(long))

\* String.prototype.split on a one-character separator.
RECURSIVE Split(_, _)
Split(s, sep) ==
  IF \E i \in 1..Len(s) : s[i] = sep
  THEN LET i == CHOOSE k \in 1..Len(s) : s[k] = sep /\ \A j \in 1..(k - 1) : s[j] # sep
       IN <<SubSeq(s, 1, i - 1)>> \o Split(SubSeq(s, i + 1, Len(s)), sep)
  ELSE <<s>>

Mounted == pc = "idle" /\ toast = NoToast

\* C1: once the mount of a fresh session has settled (load effect, save
\* effect, re-render, save effect), the list equals the list the previous
\* session ended with, record for record and in order, and the stored item
\* parses to that same list.
C1_RoundTrip ==
  (Mounted /\ preReload.t = "arr")
    => /\ expenses = preReload
       /\ Truthy(storage)
       /\ JSONparse(storage.text).ok
       /\ JSONparse(storage.text).val = preReload

\* A session that ended with two records, the first of them added by
\* addExpense, has been reloaded and its mount has settled.
C1_Witness ==
  /\ Mounted
  /\ preReload.t = "arr"
  /\ Len(preReload.items) = 2
  /\ Get(preReload.items[1], K_id) # JStr(<<"0">>)
  /\ Len(List) = 2

\* C2: after Reset and the effects it triggers, the 'expenses' item is
\* absent from storage.
C2_ResetRemovesKey ==
  (pc = "idle" /\ toast = ToastSuccess("All expenses cleared")) => ~storage.present

\* C3: whatever the item holds at session start, the session does not
\* fail, and with an absent or malformed item the list starts empty.
C3_NoCrash ==
  /\ pc # "crashed"
  /\ (Mounted /\ preReload.t = "undefined" /\ ~RenderOk(FreshLoad(storage)))
       => List = <<>>

\* C4: whenever no effect is pending, a fresh load of the item yields the
\* list in memory; after Reset that list is empty and its total is 0.
C4_StorageMirrors ==
  /\ pc = "idle" => FreshLoad(storage) = expenses
  /\ (pc = "idle" /\ toast = ToastSuccess("All expenses cleared"))
       => /\ List = <<>>
          /\ totalExpenses = 0
          /\ FreshLoad(storage) = JArr(<<>>)

\* A delete has left one record, and its save effect has run.
C4_Witness ==
  /\ pc = "idle"
  /\ toast = ToastSuccess("Expense deleted")
  /\ Len(List) = 1

\* C5: the ids of the records of the list are pairwise distinct.
C5_IdsDistinct ==
  \A i, j \in 1..Len(List) : i # j => Ids(List)[i] # Ids(List)[j]

\* C6: a delete of an id some record carries removes exactly one record,
\* that one, and keeps the others in order; a delete of an id no record
\* carries leaves the list as it was.
C6_DeleteExactlyOne ==
  [][\A id \in DeleteIds :
       deleteExpense(id) =>
         IF \E i \in 1..Len(List) : Ids(List)[i] = JStr(id)
         THEN /\ Len(expenses'.items) = Len(List) - 1
              /\ \E i \in 1..Len(List) :
                   Ids(List)[i] = JStr(id) /\ expenses'.items = RemoveAt(List, i)
         ELSE expenses'.items = List]_vars

\* C7: an add with the amount field empty (what a number input gives for
\* no text or for text that is no number), the description empty or the
\* category unset reports the validation error and changes neither the
\* list, the total nor the stored item; the amount field never holds text
\* that is no number and no record has an amount that is not a number.
C7_ValidationRejects ==
  /\ [](amount # <<>> => parseFloat(amount) # NaN)
  /\ [](\A i \in 1..Len(List) : Get(List[i], K_amount) # JNum(NaN))
  /\ [][(addExpense /\ (amount = <<>> \/ description = <<>> \/ category = <<>>))
          => /\ toast' = ToastError("Please fill in all fields")
             /\ expenses' = expenses
             /\ Reduce(expenses'.items, 0) = totalExpenses
             /\ storage' = storage
             /\ pc' = "idle"]_vars

\* An add was rejected while the list held a record.
C7_Witness ==
  /\ toast = ToastError("Please fill in all fields")
  /\ Len(List) >= 1

C9_CsvFourColumns ==
  download.name = "cleaned_financial_data.csv"
    => LET lines == Split(download.text, "\n") IN
       /\ lines[1] = Join(CsvHeader, <<",">>)
       /\ Len(lines) = 1 + Len(List)
       /\ \A i \in 1..Len(lines) : Len(Split(lines[i], ",")) = 4

\* C10: an export of an empty list produces no file and reports that there
\* is nothing to export, and no export changes the list or the stored item.
C10_ExportFrame ==
  [][(exportToCSV \/ exportToExcel \/ exportToPDF)
       => /\ expenses' = expenses
          /\ storage' = storage
          /\ List = <<>> => /\ download' = NoFile
                            /\ toast' = ToastError("No expenses to export")]_vars

\* An export was called on the empty list.
C10_Witness ==
  /\ toast = ToastError("No expenses to export")
  /\ List = <<>>
  /\ pc = "idle"

====
